---- MODULE Spec2Model ----
(***************************************************************************)
(* Model of library.py: a scrambled book file ("text|line_number" lines)   *)
(* is read, the longest line and the average line length are computed,     *)
(* the lines are sorted by line number and "<CODE>_book.txt" is written.   *)
(*                                                                         *)
(* Python strings are sequences of one-character strings, so that          *)
(* splitting, stripping, int() and str() are computed character by         *)
(* character.  A file is the sequence of its characters.                   *)
(***************************************************************************)
EXTENDS Integers, Sequences, FiniteSets, TLC

VARIABLES argv, files, io, stdout, pc, exit_code, input_path, unread, line,
          rows, longest, avg_len, sorted_rows, code, output_path, wi

vars == <<argv, files, io, stdout, pc, exit_code, input_path, unread, line,
          rows, longest, avg_len, sorted_rows, code, output_path, wi>>

(* ---------------------------- bounds ----------------------------------- *)
MaxRaw   == 5   \* longest raw line given to parse_line alone
MaxPath  == 5   \* longest enumerated input path
MaxRows  == 3   \* longest list of records given to the aggregator/sort
MaxBook  == 3   \* most lines of a scrambled book
MaxLines == 2   \* most lines of an arbitrary (possibly malformed) file

(* ------------------------ characters and strings ----------------------- *)
NL  == "\n"
BAR == "|"
DOT == "."
SEP == "/"

Whitespace == {" ", NL, "\t", "\r"}
Digits     == {"0", "1", "2", "3", "4", "5", "6", "7", "8", "9"}

DigitVal(c) ==
    CASE c = "0" -> 0 [] c = "1" -> 1 [] c = "2" -> 2 [] c = "3" -> 3
      [] c = "4" -> 4 [] c = "5" -> 5 [] c = "6" -> 6 [] c = "7" -> 7
      [] c = "8" -> 8 [] c = "9" -> 9

DigitChar(d) ==
    CASE d = 0 -> "0" [] d = 1 -> "1" [] d = 2 -> "2" [] d = 3 -> "3"
      [] d = 4 -> "4" [] d = 5 -> "5" [] d = 6 -> "6" [] d = 7 -> "7"
      [] d = 8 -> "8" [] d = 9 -> "9"

\* s[from:] (1-based, from may be Len(s)+1)
Drop(s, n) == SubSeq(s, n + 1, Len(s))
Take(s, n) == SubSeq(s, 1, n)

\* str.rfind(c): the largest index holding c, 0 when there is none
RECURSIVE RFindFrom(_, _, _)
RFindFrom(s, c, i) ==
    IF i = 0 THEN 0
    ELSE IF s[i] = c THEN i ELSE RFindFrom(s, c, i - 1)

RFind(s, c) == RFindFrom(s, c, Len(s))

\* str.find(c): the smallest index holding c, 0 when there is none
RECURSIVE FindFrom(_, _, _)
FindFrom(s, c, i) ==
    IF i > Len(s) THEN 0
    ELSE IF s[i] = c THEN i ELSE FindFrom(s, c, i + 1)

Find(s, c) == FindFrom(s, c, 1)

\* str.rstrip(chars)
RECURSIVE RStrip(_, _)
RStrip(s, chars) ==
    IF s # <<>> /\ s[Len(s)] \in chars
    THEN RStrip(Take(s, Len(s) - 1), chars)
    ELSE s

\* str.lstrip(chars)
RECURSIVE LStrip(_, _)
LStrip(s, chars) ==
    IF s # <<>> /\ s[1] \in chars THEN LStrip(Drop(s, 1), chars) ELSE s

\* str.strip(): whitespace removed at both ends
Strip(s) == LStrip(RStrip(s, Whitespace), Whitespace)

(* ------------------------------ int() / str() -------------------------- *)
\* the digits part of an integer literal: digits, single underscores between
DigitsOk(d) ==
    /\ d # <<>>
    /\ d[1] \in Digits
    /\ d[Len(d)] \in Digits
    /\ \A i \in 1..Len(d) : d[i] \in Digits \cup {"_"}
    /\ \A i \in 1..(Len(d) - 1) : ~(d[i] = "_" /\ d[i + 1] = "_")

RECURSIVE DigitsValue(_, _)
DigitsValue(d, acc) ==
    IF d = <<>> THEN acc
    ELSE IF d[1] = "_" THEN DigitsValue(Drop(d, 1), acc)
    ELSE DigitsValue(Drop(d, 1), 10 * acc + DigitVal(d[1]))

\* int(s): [ok |-> FALSE] stands for ValueError
PyInt(s) ==
    LET t      == Strip(s)
        signed == t # <<>> /\ t[1] \in {"-", "+"}
        d      == IF signed THEN Drop(t, 1) ELSE t
    IN  IF DigitsOk(d)
        THEN [ok |-> TRUE,
              val |-> IF signed /\ t[1] = "-"
                      THEN 0 - DigitsValue(d, 0) ELSE DigitsValue(d, 0)]
        ELSE [ok |-> FALSE, val |-> 0]

RECURSIVE NatToStr(_)
NatToStr(n) ==
    IF n < 10 THEN <<DigitChar(n)>>
    ELSE Append(NatToStr(n \div 10), DigitChar(n % 10))

\* str(n), as the f-strings format an int
IntToStr(n) == IF n < 0 THEN <<"-">> \o NatToStr(0 - n) ELSE NatToStr(n)

(* ------------------------------ parse_line ----------------------------- *)
\* str.split("|", 1): the split at the FIRST "|" (not what the code does)
SplitBarFirst(s) ==
    LET i == Find(s, BAR)
    IN  IF i = 0 THEN <<s>> ELSE <<Take(s, i - 1), Drop(s, i)>>

\* str.rsplit("|", 1): one part when there is no "|", else two
RSplitBar(s) ==
    LET i == RFind(s, BAR)
    IN  IF i = 0 THEN <<s>> ELSE <<Take(s, i - 1), Drop(s, i)>>

\* parse_line(raw_line): [ok |-> FALSE] stands for the ValueError raised by
\* the tuple unpacking (no "|") or by int() (suffix not an integer)
parse_line(raw_line) ==
    LET stripped == RStrip(raw_line, {NL})
        parts    == RSplitBar(stripped)
    IN  IF Len(parts) # 2
        THEN [ok |-> FALSE, text |-> <<>>, line_number |-> 0]
        ELSE LET n == PyInt(parts[2])
             IN  IF n.ok
                 THEN [ok |-> TRUE, text |-> parts[1], line_number |-> n.val]
                 ELSE [ok |-> FALSE, text |-> <<>>, line_number |-> 0]

(* --------------------------- find_longest_line ------------------------- *)
\* a record (line_number, text) is the tuple <<line_number, text>>
\* (best_line_number, best_text, best_length) before the scan
InitBestZero == <<0, <<>>, 0 - 1>>   \* line_number 0 (not what the code does)

InitBest == <<0 - 1, <<>>, 0 - 1>>

\* the scan without the tie-break on line_number: on equal lengths the
\* record met later in the scan wins (not what the code does)
LongestStepScanOrder(best, row) ==
    IF Len(row[2]) >= best[3] THEN <<row[1], row[2], Len(row[2])>> ELSE best

\* one iteration of the for loop
LongestStep(best, row) ==
    LET line_number    == row[1]
        text           == row[2]
        current_length == Len(text)
    IN  IF current_length > best[3]
        THEN <<line_number, text, current_length>>
        ELSE IF current_length = best[3] /\ line_number > best[1]
             THEN <<line_number, text, best[3]>>
             ELSE best

RECURSIVE LongestScan(_, _, _)
LongestScan(rs, i, best) ==
    IF i > Len(rs) THEN best
    ELSE LongestScan(rs, i + 1, LongestStep(best, rs[i]))

find_longest_line(rs) == LongestScan(rs, 1, InitBest)

(* -------------------------- average_line_length ------------------------ *)
RECURSIVE TotalChars(_)
TotalChars(rs) ==
    IF rs = <<>> THEN 0 ELSE Len(rs[1][2]) + TotalChars(Drop(rs, 1))

\* int(total_chars / count): the mean truncated (not what the code does)
average_truncated(rs) ==
    IF rs = <<>> THEN 0 ELSE TotalChars(rs) \div Len(rs)

\* int(total_chars / count + 0.5).  The true division is taken exactly:
\* the mean is whole + rest/count with 0 <= rest < count, and adding one
\* half reaches the next integer exactly when rest/count >= 1/2.
average_line_length(rs) ==
    IF rs = <<>> THEN 0
    ELSE LET total_chars == TotalChars(rs)
             count       == Len(rs)
             whole       == total_chars \div count
             rest        == total_chars % count
         IN  IF 2 * rest >= count THEN whole + 1 ELSE whole

(* -------------------------- sort_lines_by_number ----------------------- *)
\* insertion in front of the records with an equal key: an unstable sort
\* (not what sorted() does)
InsertBeforeEqual(s, row) ==
    LET k == Cardinality({i \in 1..Len(s) : s[i][1] < row[1]})
    IN  Take(s, k) \o <<row>> \o Drop(s, k)

\* insertion behind every record whose key is <= the new key
InsertByKey(s, row) ==
    LET k == Cardinality({i \in 1..Len(s) : s[i][1] <= row[1]})
    IN  Take(s, k) \o <<row>> \o Drop(s, k)

RECURSIVE SortedFrom(_, _, _)
SortedFrom(rs, i, acc) ==
    IF i > Len(rs) THEN acc
    ELSE SortedFrom(rs, i + 1, InsertByKey(acc, rs[i]))

\* sorted(rows, key=...) returning its input as it is (not what it does)
sort_lines_unsorted(rs) == rs

\* sorted(rows, key=lambda pair: pair[0]): a new list, stable, ascending
sort_lines_by_number(rs) == SortedFrom(rs, 1, <<>>)

(* -------------------------- make_output_filename ----------------------- *)
S_book_txt == <<"_", "b", "o", "o", "k", ".", "t", "x", "t">>

\* os.path.dirname (posixpath)
dirname(p) ==
    LET i    == RFind(p, SEP)
        head == Take(p, i)
    IN  IF head # <<>> /\ \E j \in 1..Len(head) : head[j] # SEP
        THEN RStrip(head, {SEP}) ELSE head

\* os.path.basename (posixpath)
basename(p) == Drop(p, RFind(p, SEP))

\* a split at the first "." of the name (not what os.path.splitext does)
splitext_first_dot(p) ==
    LET sepIndex == RFind(p, SEP)
        d        == Find(Drop(p, sepIndex), DOT)
    IN  IF d > 0
        THEN <<Take(p, sepIndex + d - 1), Drop(p, sepIndex + d - 1)>>
        ELSE <<p, <<>>>>

\* os.path.splitext (genericpath._splitext): split at the last ".", unless
\* only dots stand between the last "/" and it
splitext(p) ==
    LET sepIndex == RFind(p, SEP)
        dotIndex == RFind(p, DOT)
    IN  IF /\ dotIndex > sepIndex
           /\ \E filenameIndex \in (sepIndex + 1)..(dotIndex - 1) :
                  p[filenameIndex] # DOT
        THEN <<Take(p, dotIndex - 1), Drop(p, dotIndex - 1)>>
        ELSE <<p, <<>>>>

\* os.path.join(a, b) (posixpath), two components
path_join(a, b) ==
    IF b # <<>> /\ b[1] = SEP THEN b
    ELSE IF a = <<>> \/ a[Len(a)] = SEP THEN a \o b
    ELSE a \o <<SEP>> \o b

\* make_output_filename(input_path) = <<code, out_path>>
make_output_filename(path) ==
    LET directory == dirname(path)
        base      == basename(path)
        cd        == splitext(base)[1]
        out_name  == cd \o S_book_txt
    IN  <<cd, IF directory # <<>> THEN path_join(directory, out_name)
              ELSE out_name>>

(* ------------------------------ the program ---------------------------- *)
S_Longest == <<"L", "o", "n", "g", "e", "s", "t", " ", "l", "i", "n", "e",
               " ", "(">>
S_Paren   == <<")", ":", " ">>
S_Average == <<"A", "v", "e", "r", "a", "g", "e", " ", "l", "e", "n", "g",
               "t", "h", ":", " ">>

NoBest == <<0, <<>>, 0>>      \* longest before find_longest_line has run

\* the first line of the unread part of a file, as "for line in f" yields
\* it: up to and including the first newline, or the rest
FirstLine(u) ==
    LET i == Find(u, NL) IN IF i = 0 THEN u ELSE Take(u, i)

\* the wrong argument check: one argument or more (not what the code does)
ArgCountAtLeastOne(av) == Len(av) >= 1

\* len(argv) != 1 negated: the argument check of main passes
ArgCountOk(av) == Len(av) = 1

\* main, line 206: wrong number of arguments
MainUsage ==
    /\ pc = "main"
    /\ ~ArgCountOk(argv)
    /\ stdout' = Append(stdout, <<"Usage: python3 library.py BOOK_FILE.txt">>)
    /\ exit_code' = <<1>>
    /\ pc' = "exited"
    /\ UNCHANGED <<argv, files, io, input_path, unread, line, rows, longest,
                   avg_len, sorted_rows, code, output_path, wi>>

\* main, line 212: the input path does not exist
MainNotFound ==
    /\ pc = "main"
    /\ ArgCountOk(argv)
    /\ argv[1] \notin DOMAIN files
    /\ stdout' = Append(stdout, <<"Error: file not found: ", argv[1]>>)
    /\ exit_code' = <<1>>
    /\ pc' = "exited"
    /\ UNCHANGED <<argv, files, io, input_path, unread, line, rows, longest,
                   avg_len, sorted_rows, code, output_path, wi>>

\* main, line 216: process_book(input_path) is called
MainProcess ==
    /\ pc = "main"
    /\ ArgCountOk(argv)
    /\ argv[1] \in DOMAIN files
    /\ input_path' = argv[1]
    /\ pc' = "open_in"
    /\ UNCHANGED <<argv, files, io, stdout, exit_code, unread, line, rows,
                   longest, avg_len, sorted_rows, code, output_path, wi>>

\* read_book_file, line 47: open(path)
OpenIn ==
    /\ pc = "open_in"
    /\ input_path \in DOMAIN files
    /\ io' = Append(io, <<"open", input_path, "r">>)
    /\ unread' = files[input_path]
    /\ rows' = <<>>
    /\ pc' = "read"
    /\ UNCHANGED <<argv, files, stdout, exit_code, input_path, line, longest,
                   avg_len, sorted_rows, code, output_path, wi>>

\* read_book_file, lines 48-51: the next line; a blank one is skipped
NextLine ==
    /\ pc = "read"
    /\ unread # <<>>
    /\ line' = FirstLine(unread)
    /\ unread' = Drop(unread, Len(FirstLine(unread)))
    /\ pc' = IF Strip(FirstLine(unread)) = <<>> THEN "read" ELSE "parse"
    /\ UNCHANGED <<argv, files, io, stdout, exit_code, input_path, rows,
                   longest, avg_len, sorted_rows, code, output_path, wi>>

\* read_book_file, lines 52-53, with a ValueError of parse_line caught and
\* the line skipped (not what the code does)
ParseLineSkipBad ==
    /\ pc = "parse"
    /\ LET r == parse_line(line)
       IN  rows' = IF r.ok THEN Append(rows, <<r.line_number, r.text>>)
                   ELSE rows
    /\ pc' = "read"
    /\ UNCHANGED <<argv, files, io, stdout, exit_code, input_path, unread,
                   line, longest, avg_len, sorted_rows, code, output_path, wi>>

\* read_book_file, lines 52-53: parse_line(line) and rows.append; the
\* ValueError of parse_line is caught nowhere and ends the run
ParseLine ==
    /\ pc = "parse"
    /\ LET r == parse_line(line)
       IN  IF r.ok
           THEN /\ rows' = Append(rows, <<r.line_number, r.text>>)
                /\ pc' = "read"
                /\ exit_code' = exit_code
           ELSE /\ rows' = rows
                /\ pc' = "raised"
                /\ exit_code' = <<1>>
    /\ UNCHANGED <<argv, files, io, stdout, input_path, unread, line,
                   longest, avg_len, sorted_rows, code, output_path, wi>>

\* read_book_file, lines 48 and 54: the file is exhausted, rows is returned
EndOfFile ==
    /\ pc = "read"
    /\ unread = <<>>
    /\ pc' = "longest"
    /\ UNCHANGED <<argv, files, io, stdout, exit_code, input_path, unread,
                   line, rows, longest, avg_len, sorted_rows, code,
                   output_path, wi>>

\* process_book, line 178
FindLongest ==
    /\ pc = "longest"
    /\ longest' = find_longest_line(rows)
    /\ pc' = "average"
    /\ UNCHANGED <<argv, files, io, stdout, exit_code, input_path, unread,
                   line, rows, avg_len, sorted_rows, code, output_path, wi>>

\* process_book, line 179
Average ==
    /\ pc = "average"
    /\ avg_len' = average_line_length(rows)
    /\ pc' = "sort"
    /\ UNCHANGED <<argv, files, io, stdout, exit_code, input_path, unread,
                   line, rows, longest, sorted_rows, code, output_path, wi>>

\* process_book, line 180
SortLines ==
    /\ pc = "sort"
    /\ sorted_rows' = sort_lines_by_number(rows)
    /\ pc' = "filename"
    /\ UNCHANGED <<argv, files, io, stdout, exit_code, input_path, unread,
                   line, rows, longest, avg_len, code, output_path, wi>>

\* process_book, line 182
MakeFilename ==
    /\ pc = "filename"
    /\ code' = make_output_filename(input_path)[1]
    /\ output_path' = make_output_filename(input_path)[2]
    /\ pc' = "open_out"
    /\ UNCHANGED <<argv, files, io, stdout, exit_code, input_path, unread,
                   line, rows, longest, avg_len, sorted_rows, wi>>

\* write_output_file, line 157: open(output_path, "w") creates or truncates
OpenOut ==
    /\ pc = "open_out"
    /\ io' = Append(io, <<"open", output_path, "w">>)
    /\ files' = [p \in DOMAIN files \cup {output_path} |->
                    IF p = output_path THEN <<>> ELSE files[p]]
    /\ pc' = "write_meta"
    /\ UNCHANGED <<argv, stdout, exit_code, input_path, unread, line, rows,
                   longest, avg_len, sorted_rows, code, output_path, wi>>

\* write_output_file, lines 159-161: the three metadata lines
WriteMeta ==
    /\ pc = "write_meta"
    /\ files' = [files EXCEPT ![output_path] =
                    @ \o code \o <<NL>>
                      \o S_Longest \o IntToStr(longest[1]) \o S_Paren
                      \o longest[2] \o <<NL>>
                      \o S_Average \o IntToStr(avg_len) \o <<NL>>]
    /\ wi' = 1
    /\ pc' = "write_rows"
    /\ UNCHANGED <<argv, io, stdout, exit_code, input_path, unread, line,
                   rows, longest, avg_len, sorted_rows, code, output_path>>

\* write_output_file, lines 164-165: one text line
WriteRow ==
    /\ pc = "write_rows"
    /\ wi <= Len(sorted_rows)
    /\ files' = [files EXCEPT ![output_path] =
                    @ \o sorted_rows[wi][2] \o <<NL>>]
    /\ wi' = wi + 1
    /\ UNCHANGED <<argv, io, stdout, pc, exit_code, input_path, unread, line,
                   rows, longest, avg_len, sorted_rows, code, output_path>>

\* write_output_file returns, process_book and main return: exit status 0
CloseOut ==
    /\ pc = "write_rows"
    /\ wi > Len(sorted_rows)
    /\ pc' = "exited"
    /\ exit_code' = <<0>>
    /\ UNCHANGED <<argv, files, io, stdout, input_path, unread, line, rows,
                   longest, avg_len, sorted_rows, code, output_path, wi>>

Next ==
    \/ MainUsage \/ MainNotFound \/ MainProcess
    \/ OpenIn \/ NextLine \/ ParseLine \/ EndOfFile
    \/ FindLongest \/ Average \/ SortLines \/ MakeFilename
    \/ OpenOut \/ WriteMeta \/ WriteRow \/ CloseOut

(* ------------------------------ the inputs ----------------------------- *)
TTL == <<"T", "T", "L", ".", "t", "x", "t">>
ALG == <<"b", "o", "o", "k", "s", "/", "A", "L", "G", ".", "t", "x", "t">>
OLD == <<"o", "l", "d", NL>>       \* what an earlier run left in the output

StringsUpTo(alphabet, n) == UNION {[1..k -> alphabet] : k \in 0..n}

Perms(n) == {f \in [1..n -> 1..n] : \A i, j \in 1..n : f[i] = f[j] => i = j}

\* the input line of a record: "text|line_number" and a newline
TaggedLine(text, n) == text \o <<BAR>> \o IntToStr(n) \o <<NL>>

\* the file holding the lines of book, tagged 1..N, in the order perm
RECURSIVE Scramble(_, _, _)
Scramble(book, perm, j) ==
    IF j > Len(book) THEN <<>>
    ELSE TaggedLine(book[perm[j]], perm[j]) \o Scramble(book, perm, j + 1)

\* the file holding the records rs in order
RECURSIVE Serialise(_)
Serialise(rs) ==
    IF rs = <<>> THEN <<>>
    ELSE TaggedLine(rs[1][2], rs[1][1]) \o Serialise(Drop(rs, 1))

RECURSIVE JoinLines(_)
JoinLines(ls) ==
    IF ls = <<>> THEN <<>> ELSE ls[1] \o <<NL>> \o JoinLines(Drop(ls, 1))

\* a file with and without its final newline
EndVariants(f) ==
    {f} \cup (IF f # <<>> /\ f[Len(f)] = NL THEN {Take(f, Len(f) - 1)} ELSE {})

BookTexts == {<<>>, <<"a">>, <<"b", BAR, "1">>}
Books     == UNION {[1..n -> BookTexts] : n \in 1..MaxBook}

ScrambledBooks ==
    UNION {UNION {EndVariants(Scramble(b, q, 1)) : q \in Perms(Len(b))} :
             b \in Books}

\* lines of arbitrary files: well-formed, negative number, no separator,
\* non-integer suffix, whitespace only, empty
RawLines == {<<"a", BAR, "1">>, <<"b", "b", BAR, "-", "3">>, <<"a">>,
             <<"a", BAR, "x">>, <<" ">>, <<>>}

ArbitraryFiles ==
    UNION {EndVariants(JoinLines(ls)) :
             ls \in UNION {[1..n -> RawLines] : n \in 0..MaxLines}}

FileContents == ScrambledBooks \cup ArbitraryFiles

InPaths == {TTL, ALG}
ArgvSet == {<<>>} \cup {<<p>> : p \in InPaths}
                 \cup {<<p, q>> : p \in InPaths, q \in InPaths}

LineNums == {0 - 1, 1, 2}
RowTexts == {<<>>, <<"a", "b">>, <<"x", "y">>, <<"a", "b", "c">>,
             <<"a", "b", "c", "d">>}
RowLists == UNION {[1..n -> LineNums \X RowTexts] : n \in 0..MaxRows}

ParseAlphabet == {"a", BAR, "1", "-", " ", NL}
PathAlphabet  == {"a", DOT, SEP}

(* --------------------------- the specifications ------------------------ *)
\* the program started with any argument list; one input file may exist,
\* and so may the output file of an earlier run
Init ==
    /\ argv \in ArgvSet
    /\ \E p \in InPaths, c \in FileContents, pre \in BOOLEAN :
          files = [q \in {p} \cup (IF pre THEN {make_output_filename(p)[2]}
                                   ELSE {}) |->
                     IF q = p THEN c ELSE OLD]
    /\ io = <<>>
    /\ stdout = <<>>
    /\ pc = "main"
    /\ exit_code = <<>>
    /\ input_path = <<>>
    /\ unread = <<>>
    /\ line = <<>>
    /\ rows = <<>>
    /\ longest = NoBest
    /\ avg_len = 0
    /\ sorted_rows = <<>>
    /\ code = <<>>
    /\ output_path = <<>>
    /\ wi = 0

Spec == Init /\ [][Next]_vars

\* process_book after read_book_file has returned any list of records
InitRows ==
    /\ argv = <<TTL>>
    /\ rows \in RowLists
    /\ files = [q \in {TTL} |-> Serialise(rows)]
    /\ io = <<<<"open", TTL, "r">>>>
    /\ stdout = <<>>
    /\ pc = "longest"
    /\ exit_code = <<>>
    /\ input_path = TTL
    /\ unread = <<>>
    /\ line = <<>>
    /\ longest = NoBest
    /\ avg_len = 0
    /\ sorted_rows = <<>>
    /\ code = <<>>
    /\ output_path = <<>>
    /\ wi = 0

NextRows == FindLongest \/ Average \/ SortLines

SpecRows == InitRows /\ [][NextRows]_vars

\* parse_line given any raw line
InitParse ==
    /\ argv = <<TTL>>
    /\ line \in StringsUpTo(ParseAlphabet, MaxRaw)
    /\ files = [q \in {TTL} |-> line]
    /\ io = <<<<"open", TTL, "r">>>>
    /\ stdout = <<>>
    /\ pc = "parse"
    /\ exit_code = <<>>
    /\ input_path = TTL
    /\ unread = <<>>
    /\ rows = <<>>
    /\ longest = NoBest
    /\ avg_len = 0
    /\ sorted_rows = <<>>
    /\ code = <<>>
    /\ output_path = <<>>
    /\ wi = 0

NextParse == ParseLine

SpecParse == InitParse /\ [][NextParse]_vars

\* make_output_filename given any input path (the file there is empty)
InitPath ==
    /\ input_path \in StringsUpTo(PathAlphabet, MaxPath) \cup {TTL, ALG}
    /\ argv = <<input_path>>
    /\ files = [q \in {input_path} |-> <<>>]
    /\ io = <<<<"open", input_path, "r">>>>
    /\ stdout = <<>>
    /\ pc = "filename"
    /\ exit_code = <<>>
    /\ unread = <<>>
    /\ line = <<>>
    /\ rows = <<>>
    /\ longest = InitBest
    /\ avg_len = 0
    /\ sorted_rows = <<>>
    /\ code = <<>>
    /\ output_path = <<>>
    /\ wi = 0

NextPath == MakeFilename

SpecPath == InitPath /\ [][NextPath]_vars

(* ------------------------------ the claims ----------------------------- *)
\* the largest member of a non-empty set of integers, 0 for the empty set
MaxOf(S) == IF S = {} THEN 0 ELSE CHOOSE i \in S : \A j \in S : j <= i

\* the index of the last "|" of s, 0 when there is none
LastBar(s) == MaxOf({i \in 1..Len(s) : s[i] = BAR})

\* s reads as a base-10 integer: optional sign and one digit or more,
\* whitespace allowed around
IsIntegerText(s) ==
    \E a \in 1..Len(s) : \E b \in a..Len(s) :
        /\ \A k \in 1..(a - 1) : s[k] \in Whitespace
        /\ \A k \in (b + 1)..Len(s) : s[k] \in Whitespace
        /\ LET first == IF s[a] \in {"-", "+"} THEN a + 1 ELSE a
           IN  /\ first <= b
               /\ \A k \in first..b : s[k] \in Digits

\* the lines of a file, without their newlines
RECURSIVE SplitLines(_)
SplitLines(f) ==
    IF f = <<>> THEN <<>>
    ELSE <<RStrip(FirstLine(f), {NL})>> \o SplitLines(Drop(f, Len(FirstLine(f))))

\* the lengths of the texts of the records rs
Lengths(rs) == [i \in 1..Len(rs) |-> Len(rs[i][2])]

RECURSIVE SumTo(_, _)
SumTo(ls, n) == IF n = 0 THEN 0 ELSE ls[n] + SumTo(ls, n - 1)

\* the orderings of lists of up to MaxRows records, of books of up to
\* MaxBook lines
RowPerms  == [n \in 0..MaxRows |-> Perms(n)]
BookPerms == [n \in 0..MaxBook |-> Perms(n)]

AfterLongest == {"average", "sort", "filename", "open_out", "write_meta",
                 "write_rows"}
AfterAverage == AfterLongest \ {"average"}
AfterSort    == AfterAverage \ {"sort"}

\* the run has got past main and is (or was) in process_book
InProcessBook == input_path \in DOMAIN files

\* C1: for a non-empty list, find_longest_line returns a record of the
\* list of maximal text length and, among those, of largest line_number,
\* with the length of its text; line_number and length are the same for
\* every permutation of the list.
C1_LongestLine ==
    (pc \in AfterLongest /\ rows # <<>>) =>
        /\ \E i \in 1..Len(rows) : rows[i] = <<longest[1], longest[2]>>
        /\ longest[3] = Len(longest[2])
        /\ \A i \in 1..Len(rows) :
              /\ Len(rows[i][2]) <= longest[3]
              /\ Len(rows[i][2]) = longest[3] => rows[i][1] <= longest[1]
        /\ pc = "average" => \A q \in RowPerms[Len(rows)] :
              LET permuted == [j \in 1..Len(rows) |-> rows[q[j]]]
                  found    == find_longest_line(permuted)
              IN  found[1] = longest[1] /\ found[3] = longest[3]

\* a tie on the maximal length in which the record scanned first has the
\* larger line_number and is the one returned
C1_Witness ==
    /\ pc = "average"
    /\ Len(rows) >= 2
    /\ Len(rows[1][2]) = Len(rows[2][2])
    /\ rows[1][1] > rows[2][1]
    /\ longest = <<rows[1][1], rows[1][2], Len(rows[1][2])>>

\* C2: for a non-empty list, average_line_length returns the mean text
\* length rounded to the nearest integer, halves up:
\* (2*sum + count) div (2*count); lengths [4,2] give 3, [3,2] give 3.
C2_AverageRounded ==
    (pc \in AfterAverage /\ rows # <<>>) =>
        LET sum   == SumTo(Lengths(rows), Len(rows))
            count == Len(rows)
        IN  /\ avg_len = (2 * sum + count) \div (2 * count)
            /\ (2 * avg_len - 1) * count <= 2 * sum
            /\ 2 * sum < (2 * avg_len + 1) * count
            /\ Lengths(rows) = <<4, 2>> => avg_len = 3
            /\ Lengths(rows) = <<3, 2>> => avg_len = 3

\* the mean 2.5 has been rounded up to 3
C2_Witness ==
    /\ pc = "sort"
    /\ Lengths(rows) = <<3, 2>>
    /\ avg_len = 3

\* C3: sort_lines_by_number returns a permutation of its input that is
\* non-decreasing in line_number and keeps records of equal line_number
\* in their input order; the input list is left as it was.
C3_StableSort ==
    (pc \in AfterSort) =>
        /\ Len(sorted_rows) = Len(rows)
        /\ \A j \in 1..(Len(sorted_rows) - 1) :
              sorted_rows[j][1] <= sorted_rows[j + 1][1]
        /\ \E q \in RowPerms[Len(rows)] :
              /\ \A j \in 1..Len(rows) : sorted_rows[j] = rows[q[j]]
              /\ \A j, k \in 1..Len(rows) :
                    (j < k /\ sorted_rows[j][1] = sorted_rows[k][1])
                        => q[j] < q[k]
        /\ Serialise(rows) = files[input_path]

\* two different records of equal line_number have been sorted, and the
\* sort has moved a record
C3_Witness ==
    /\ pc = "filename"
    /\ sorted_rows # rows
    /\ \E i, j \in 1..Len(rows) :
          i < j /\ rows[i][1] = rows[j][1] /\ rows[i][2] # rows[j][2]

\* C4: when the input file is a scrambling of a book whose line i is
\* tagged i (1..N), the run ends normally and the lines written after the
\* three metadata lines are the N lines of the book in the order 1..N:
\* tagged 1..N in the order written and scrambled again, they give the
\* input file.
C4_RoundTrip ==
    (InProcessBook /\ files[input_path] \in ScrambledBooks) =>
        /\ pc # "raised"
        /\ pc = "exited" =>
              LET out   == files[output_path]
                  lines == SplitLines(out)
                  book  == Drop(lines, 3)
              IN  /\ exit_code = <<0>>
                  /\ out # <<>> /\ out[Len(out)] = NL
                  /\ Len(lines) >= 3
                  /\ Len(book) <= MaxBook
                  /\ \E q \in BookPerms[Len(book)] :
                        files[input_path] \in EndVariants(Scramble(book, q, 1))

\* a book of three lines or more, one of them holding a "|", that was out
\* of order in the input has been written
C4_Witness ==
    /\ pc = "exited"
    /\ exit_code = <<0>>
    /\ files[input_path] \in ScrambledBooks
    /\ Len(rows) >= 3
    /\ rows # sorted_rows
    /\ \E i \in 1..Len(rows) : LastBar(rows[i][2]) > 0

\* C5: parse_line splits at the last "|": the text is all that precedes
\* it (earlier "|" included), the line_number is the integer value of what
\* follows it; with no "|", or with a suffix that is no integer, it fails
\* and no record is produced.
C5_ParseLine ==
    (pc # "parse") =>
        LET last   == LastBar(line)
            suffix == Drop(line, last)
            good   == last > 0 /\ IsIntegerText(suffix)
        IN  /\ good => /\ pc = "read"
                       /\ rows = <<<<PyInt(suffix).val, Take(line, last - 1)>>>>
            /\ ~good => /\ pc = "raised"
                        /\ rows = <<>>

\* a line with two "|" has been parsed and the first one is in the text
C5_Witness ==
    /\ pc = "read"
    /\ Len(rows) = 1
    /\ LastBar(rows[1][2]) > 0

\* the directory part and the name part of the output path of C6
C6_Placed ==
    /\ dirname(output_path) = dirname(input_path)
    /\ basename(output_path) = code \o S_book_txt
    /\ (\A i \in 1..Len(input_path) : input_path[i] # SEP)
          => output_path = code \o S_book_txt
    /\ input_path = TTL =>
          /\ code = <<"T", "T", "L">>
          /\ output_path = <<"T", "T", "L">> \o S_book_txt
    /\ input_path = ALG =>
          /\ code = <<"A", "L", "G">>
          /\ output_path = <<"b", "o", "o", "k", "s", SEP, "A", "L", "G">>
                              \o S_book_txt

\* C6 as claimed: the code is the basename up to its FIRST ".", also for
\* basenames with several dots or starting with a dot.
C6_FirstDot ==
    (pc = "open_out") =>
        LET k    == MaxOf({i \in 1..Len(input_path) : input_path[i] = SEP})
            base == Drop(input_path, k)
            dots == {i \in 1..Len(base) : base[i] = DOT}
        IN  /\ code = IF dots = {} THEN base
                      ELSE Take(base, (CHOOSE i \in dots :
                                         \A j \in dots : i <= j) - 1)
            /\ C6_Placed

\* C6 amended: the code is the basename up to its LAST ".", provided a
\* character other than "." precedes that "." in the basename, and the
\* whole basename otherwise; the output path is <code>_book.txt in the
\* directory of the input.
C6_LastDot ==
    (pc = "open_out") =>
        LET k    == MaxOf({i \in 1..Len(input_path) : input_path[i] = SEP})
            base == Drop(input_path, k)
            dots == {i \in 1..Len(base) :
                       base[i] = DOT /\ \E j \in 1..(i - 1) : base[j] # DOT}
        IN  /\ code = IF dots = {} THEN base ELSE Take(base, MaxOf(dots) - 1)
            /\ C6_Placed

\* a name with two dots apart has been split: a "." is left in the code
C6_Witness ==
    /\ pc = "open_out"
    /\ \E i \in 2..Len(code) : code[i] = DOT /\ code[1] # DOT
    /\ Len(basename(input_path)) > Len(code)

\* the argument list or the input path fails the checks of main
BadArguments == Len(argv) # 1 \/ argv[1] \notin DOMAIN files

\* C7: with a number of arguments other than one, main prints the usage
\* and exits non-zero having opened no file; with a path that does not
\* exist it prints an error and exits non-zero, the output file neither
\* created nor written; process_book is reached only past both checks.
C7_ValidateFirst ==
    BadArguments =>
        /\ pc \in {"main", "exited"}
        /\ io = <<>>
        /\ \A p \in DOMAIN files : p \in InPaths \/ files[p] = OLD
        /\ pc = "exited" =>
              /\ exit_code = <<1>>
              /\ stdout =
                    IF Len(argv) # 1
                    THEN <<<<"Usage: python3 library.py BOOK_FILE.txt">>>>
                    ELSE <<<<"Error: file not found: ", argv[1]>>>>

\* main has exited on a single argument naming no file
C7_Witness ==
    /\ pc = "exited"
    /\ Len(argv) = 1
    /\ argv[1] \notin DOMAIN files
    /\ exit_code = <<1>>

\* a non-blank line with no "|" or with a suffix that is no integer
Malformed(l) ==
    /\ Strip(l) # <<>>
    /\ LastBar(l) = 0 \/ ~IsIntegerText(Drop(l, LastBar(l)))

HasMalformedLine(f) ==
    \E i \in 1..Len(SplitLines(f)) : Malformed(SplitLines(f)[i])

\* C8: when a non-blank input line is malformed, the run never gets past
\* reading: it ends in the uncaught error with a non-zero status, and the
\* output file is not opened, created or written, wherever the line is.
C8_NoPartialOutput ==
    (InProcessBook /\ HasMalformedLine(files[input_path])) =>
        /\ pc \in {"open_in", "read", "parse", "raised"}
        /\ \A i \in 1..Len(io) : io[i][3] # "w"
        /\ \A p \in DOMAIN files : p = input_path \/ files[p] = OLD
        /\ pc = "raised" => exit_code = <<1>>
        /\ (pc = "read" /\ unread = <<>>) => FALSE

\* the run has ended in the error on a malformed line that follows a
\* well-formed one, the output file of an earlier run being there
C8_Witness ==
    /\ pc = "raised"
    /\ rows # <<>>
    /\ \E p \in DOMAIN files : p # input_path /\ files[p] = OLD

\* C9: when the input holds no record (empty, or blank lines only), the
\* average is 0, the longest line is (-1, ""), and the run ends normally
\* having written the three metadata lines and nothing else.
C9_EmptyInput ==
    (InProcessBook /\ Strip(files[input_path]) = <<>>) =>
        /\ pc # "raised"
        /\ (pc \in AfterLongest \/ pc = "exited") =>
              longest[1] = 0 - 1 /\ longest[2] = <<>>
        /\ (pc \in AfterAverage \/ pc = "exited") => avg_len = 0
        /\ pc = "exited" =>
              /\ exit_code = <<0>>
              /\ files[output_path] =
                    (IF input_path = TTL THEN <<"T", "T", "L">>
                     ELSE <<"A", "L", "G">>)
                    \o <<NL>> \o S_Longest \o <<"-", "1">> \o S_Paren
                    \o <<NL>> \o S_Average \o <<"0">> \o <<NL>>

\* a file of blank lines has been processed to the end
C9_Witness ==
    /\ pc = "exited"
    /\ exit_code = <<0>>
    /\ files[input_path] # <<>>
    /\ Strip(files[input_path]) = <<>>

\* C10: no record produced by read_book_file has a negative line_number,
\* whatever the input lines are (a suffix "-3" included).
C10_NonNegative ==
    /\ \A i \in 1..Len(rows) : rows[i][1] >= 0
    /\ \A i \in 1..Len(sorted_rows) : sorted_rows[i][1] >= 0

====
